---- MODULE Spec2Model ----
(***************************************************************************)
(* ReelForge: karaoke text overlays (text_overlay_agent.py,               *)
(* dialogue_overlay_agent.py), video/audio duration reconciliation        *)
(* (animation_compositor_agent.py) and scene start times                  *)
(* (animated_reel_orchestrator.py, resume_composition.py, video_agent.py).*)
(*                                                                         *)
(* Times are integers in milliseconds (0.1 s = 100, 0.2 s = 200,          *)
(* 0.8 s = 800); lengths that the code obtains by a division are exact    *)
(* rationals [n, d].  Widths are pixels.  A word is a sequence of         *)
(* one-character strings, so that len(word) is Len(word).                 *)
(***************************************************************************)
EXTENDS Integers, Sequences, FiniteSets, TLC

VARIABLES
    \* TextOverlayAgent fields that the callers may set
    max_words_per_line, max_line_width, bottom_offset,
    \* create_karaoke_clips: arguments, locals and position
    speech_marks, scene_start_time, word_marks,
    lines, current_line, current_width, mark_idx, line_idx, all_clips, pc,
    \* _sync_video_to_audio: the two clips' durations and the returned clip
    video_duration, audio_duration, video_audio, synced_video,
    \* assembly of a reel: the pipeline run, the script's scenes, the audio
    \* entries, the start-time loop, the overlay loop and its output
    path, scenes, audio_data, scene_start_times, cumulative_time, scene_idx,
    composite_clips, clips, all_dialogue_clips, overlay_calls, apc,
    \* _resize_and_crop: video_clip.size, target_size and the returned clip
    video_size, target_size, resized,
    \* the vertical layout of an utterance of n_lines lines
    n_lines, layout_offset, y_positions,
    \* the word loop of one line: the line, the font's advances, the
    \* character pointer and the crops made so far
    measured_line, glyph_w, space_w, char_ptr, crops,
    \* _start_async_invoke_direct: the status codes the service answers
    \* with, the loop counter, the requests made, the delays slept
    responses, attempt, http_requests, slept, rpc,
    \* server.py: the status file, and per reel its background task's
    \* position, its loaded copy of the file and orchestrate_reel's outcome
    db, task_pc, task_db, outcome

agentVars == <<max_words_per_line, max_line_width, bottom_offset>>
karaokeVars == <<speech_marks, scene_start_time, word_marks,
                 lines, current_line, current_width, mark_idx, line_idx, all_clips, pc>>
syncVars == <<video_duration, audio_duration, video_audio, synced_video>>

asmVars == <<path, scenes, audio_data, scene_start_times, cumulative_time, scene_idx,
             composite_clips, clips, all_dialogue_clips, overlay_calls, apc>>

resizeVars == <<video_size, target_size, resized>>

layoutVars == <<n_lines, layout_offset, y_positions>>

measureVars == <<measured_line, glyph_w, space_w, char_ptr, crops>>

retryVars == <<responses, attempt, http_requests, slept, rpc>>

serverVars == <<db, task_pc, task_db, outcome>>

vars == <<agentVars, karaokeVars, syncVars, asmVars, resizeVars,
          layoutVars, measureVars, retryVars, serverVars>>

----------------------------------------------------------------------------
(* Bounds of the model *)

MaxMarks == 3
MaxScenes == 2
MaxDim == 4

(* Program constants *)

font_size == 65
word_spacing == 15
line_spacing == 80
video_height == 1920
default_bottom_offset == 280
default_max_line_width == 900
default_max_words_per_line == 3
dialogue_y_offset == 1750
TrailingDisplayMs == 800
MinLineMs == 200
MinWordMs == 100

(* Inputs *)

WordValues == {<<"a">>, <<"b", "c">>}
SentenceValue == <<"a", " ", "b", "c">>
Gaps == {0, 50, 600}
ScenarioA == << [type |-> "word", value |-> <<"H","e","l","l","o">>, time |-> 0],
                [type |-> "word", value |-> <<"w","o","r","l","d">>, time |-> 500],
                [type |-> "word", value |-> <<"t","o","d","a","y">>, time |-> 1100] >>
LineWidths == {110, default_max_line_width}
WordsPerLine == {2, default_max_words_per_line}
SceneStarts == {0 - 100, 0, 2000}

----------------------------------------------------------------------------
(* Helpers *)

Max(a, b) == IF a >= b THEN a ELSE b
Min(a, b) == IF a <= b THEN a ELSE b

RECURSIVE Flatten(_)
Flatten(ss) == IF ss = <<>> THEN <<>> ELSE Head(ss) \o Flatten(Tail(ss))

RECURSIVE SumSeq(_)
SumSeq(s) == IF s = <<>> THEN 0 ELSE Head(s) + SumSeq(Tail(s))

\* sequences of word records of length n whose times are built from gaps
RECURSIVE TimedWords(_, _)
TimedWords(n, from) ==
    IF n = 0 THEN {<<>>}
    ELSE UNION { { <<[type |-> "word", value |-> v, time |-> from + g]>> \o rest :
                     rest \in TimedWords(n - 1, from + g) } :
                 v \in WordValues, g \in Gaps }

\* a speech-marks file: word records in chronological order, optionally
\* preceded by a record of another type
SpeechMarkInputs ==
    LET words == UNION { TimedWords(n, 0) : n \in 0..MaxMarks } \cup {ScenarioA}
    IN  words \cup { <<[type |-> "sentence", value |-> SentenceValue, time |-> 0]>> \o w :
                     w \in words \ {ScenarioA} }

----------------------------------------------------------------------------
(* TextOverlayAgent.create_karaoke_clips, as pure steps *)

\* line 74
WordMarksOf(marks) == SelectSeq(marks, LAMBDA m : m.type = "word")

\* line 90: len(word_text) * (font_size * 0.8); 65 * 0.8 = 52
estimated_w(mark) == (Len(mark.value) * font_size * 8) \div 10

\* GroupStep with the mark that opens a new line dropped
GroupStep_DropsMark(st, mark, mwpl, mlw) ==
    IF Len(st.current_line) >= mwpl
       \/ (st.current_width + estimated_w(mark) > mlw /\ st.current_line # <<>>)
    THEN [lines |-> Append(st.lines, st.current_line),
          current_line |-> <<>>,
          current_width |-> 0]
    ELSE [lines |-> st.lines,
          current_line |-> Append(st.current_line, mark),
          current_width |-> st.current_width + estimated_w(mark) + word_spacing]

\* GroupStep with the count test off by one (> instead of >=)
GroupStep_CountOffByOne(st, mark, mwpl, mlw) ==
    IF Len(st.current_line) > mwpl
       \/ (st.current_width + estimated_w(mark) > mlw /\ st.current_line # <<>>)
    THEN [lines |-> Append(st.lines, st.current_line),
          current_line |-> <<mark>>,
          current_width |-> estimated_w(mark)]
    ELSE [lines |-> st.lines,
          current_line |-> Append(st.current_line, mark),
          current_width |-> st.current_width + estimated_w(mark) + word_spacing]

\* lines 92-98: one iteration of the grouping loop
GroupStep(st, mark, mwpl, mlw) ==
    IF Len(st.current_line) >= mwpl
       \/ (st.current_width + estimated_w(mark) > mlw /\ st.current_line # <<>>)
    THEN [lines |-> Append(st.lines, st.current_line),
          current_line |-> <<mark>>,
          current_width |-> estimated_w(mark)]
    ELSE [lines |-> st.lines,
          current_line |-> Append(st.current_line, mark),
          current_width |-> st.current_width + estimated_w(mark) + word_spacing]

\* lines 100-101
FlushLines(st) ==
    IF st.current_line # <<>> THEN Append(st.lines, st.current_line) ELSE st.lines

\* lines 107-111
text_y_pos(nlines, idx0, boff) ==
    video_height - boff - ((nlines * line_spacing) \div 2) + idx0 * line_spacing

\* lines 113-120; idx is 1-based here
line_start_abs(ls, idx) == ls[idx][1].time

\* line_end_abs without the trailing display time of the last line
line_end_abs_NoTrailing(ls, idx) ==
    IF idx < Len(ls) THEN ls[idx + 1][1].time
    ELSE ls[idx][Len(ls[idx])].time

line_end_abs(ls, idx) ==
    IF idx < Len(ls) THEN ls[idx + 1][1].time
    ELSE ls[idx][Len(ls[idx])].time + TrailingDisplayMs

\* line_duration without the 0.2 s floor
line_duration_NoFloor(ls, idx) == line_end_abs(ls, idx) - line_start_abs(ls, idx)

line_duration(ls, idx) == Max(MinLineMs, line_end_abs(ls, idx) - line_start_abs(ls, idx))
line_start_rel(ls, idx, sst) == Max(0, line_start_abs(ls, idx) + sst)

\* lines 128-137 and 140
BaseClip(ls, idx, sst, boff) ==
    [kind |-> "base", line |-> idx, word |-> 0,
     start |-> line_start_rel(ls, idx, sst),
     duration |-> line_duration(ls, idx),
     y |-> text_y_pos(Len(ls), idx - 1, boff)]

\* lines 184-190
word_start_rel(ls, idx, i, sst) == ls[idx][i].time + sst

\* word_end_rel with the last word ending at line_end_abs + scene_start_time
word_end_rel_LineEndAbs(ls, idx, i, sst) ==
    IF i < Len(ls[idx]) THEN ls[idx][i + 1].time + sst
    ELSE line_end_abs(ls, idx) + sst

word_end_rel(ls, idx, i, sst) ==
    IF i < Len(ls[idx]) THEN ls[idx][i + 1].time + sst
    ELSE line_start_rel(ls, idx, sst) + line_duration(ls, idx)

\* word_duration without the 0.1 s floor
word_duration_NoFloor(ls, idx, i, sst) ==
    word_end_rel(ls, idx, i, sst) - word_start_rel(ls, idx, i, sst)

word_duration(ls, idx, i, sst) ==
    Max(MinWordMs, word_end_rel(ls, idx, i, sst) - word_start_rel(ls, idx, i, sst))

\* lines 181-196
HighlightClip(ls, idx, i, sst, boff) ==
    [kind |-> "highlight", line |-> idx, word |-> i,
     start |-> word_start_rel(ls, idx, i, sst),
     duration |-> word_duration(ls, idx, i, sst),
     y |-> text_y_pos(Len(ls), idx - 1, boff)]

\* Where a TextClip call of one line's try block (lines 126-203) raises:
\* 0 the base line, 1 the highlight template, 1 + i the measurement or crop
\* of word i, Len(line) + 2 nowhere.
FailPoints(line) == 0..(Len(line) + 2)

\* lines 110-203: the clips one iteration of the line loop appends
LineClips(ls, idx, sst, boff, fail) ==
    IF fail = 0 THEN <<>>
    ELSE <<BaseClip(ls, idx, sst, boff)>> \o
         [i \in 1..Min(Len(ls[idx]), fail - 2) |-> HighlightClip(ls, idx, i, sst, boff)]

----------------------------------------------------------------------------
(* Values of the variables of the parts a specification does not run *)

NoClip == [branch |-> "none"]
NoAudio == [asset |-> "none", duration |-> 0]

SyncIdle ==
    /\ video_duration = 0
    /\ audio_duration = 0
    /\ video_audio = NoAudio
    /\ synced_video = NoClip

AssemblyIdle ==
    /\ path = "none"
    /\ scenes = <<>>
    /\ audio_data = <<>>
    /\ scene_start_times = <<>>
    /\ cumulative_time = 0
    /\ scene_idx = 1
    /\ composite_clips = <<>>
    /\ clips = <<>>
    /\ all_dialogue_clips = <<>>
    /\ overlay_calls = <<>>
    /\ apc = "idle"

ResizeIdle ==
    /\ video_size = <<0, 0>>
    /\ target_size = <<0, 0>>
    /\ resized = NoClip

LayoutIdle ==
    /\ n_lines = 0
    /\ layout_offset = 0
    /\ y_positions = <<>>

MeasureIdle ==
    /\ measured_line = <<>>
    /\ glyph_w = 0
    /\ space_w = 0
    /\ char_ptr = 0
    /\ crops = <<>>

RetryIdle ==
    /\ responses = <<>>
    /\ attempt = 0
    /\ http_requests = 0
    /\ slept = <<>>
    /\ rpc = "idle"

ServerIdle ==
    /\ db = <<>>
    /\ task_pc = <<>>
    /\ task_db = <<>>
    /\ outcome = <<>>

\* the parts added to the model after the four pipelines' own
OthersIdle == LayoutIdle /\ MeasureIdle /\ RetryIdle /\ ServerIdle

AgentDefaults ==
    /\ max_words_per_line = default_max_words_per_line
    /\ max_line_width = default_max_line_width
    /\ bottom_offset = default_bottom_offset

KaraokeIdle ==
    /\ speech_marks = <<>>
    /\ scene_start_time = 0
    /\ word_marks = <<>>
    /\ lines = <<>>
    /\ current_line = <<>>
    /\ current_width = 0
    /\ mark_idx = 1
    /\ line_idx = 1
    /\ all_clips = <<>>
    /\ pc = "idle"

----------------------------------------------------------------------------
(* create_karaoke_clips as a process *)

Init ==
    /\ max_words_per_line \in WordsPerLine
    /\ max_line_width \in LineWidths
    /\ bottom_offset = default_bottom_offset
    /\ speech_marks \in SpeechMarkInputs
    /\ scene_start_time \in SceneStarts
    /\ word_marks = <<>>
    /\ lines = <<>>
    /\ current_line = <<>>
    /\ current_width = 0
    /\ mark_idx = 1
    /\ line_idx = 1
    /\ all_clips = <<>>
    /\ pc = "filter"
    /\ SyncIdle
    /\ AssemblyIdle
    /\ ResizeIdle
    /\ OthersIdle

\* lines 70-81
FilterMarks ==
    /\ pc = "filter"
    /\ word_marks' = WordMarksOf(speech_marks)
    /\ pc' = IF speech_marks = <<>> \/ WordMarksOf(speech_marks) = <<>>
             THEN "done" ELSE "group"
    /\ UNCHANGED <<syncVars, asmVars, resizeVars, layoutVars, measureVars, retryVars, serverVars>>
    /\ UNCHANGED <<max_words_per_line, max_line_width, bottom_offset, speech_marks,
                   scene_start_time, lines, current_line, current_width,
                   mark_idx, line_idx, all_clips>>

\* lines 86-98
GroupWord ==
    /\ pc = "group"
    /\ mark_idx <= Len(word_marks)
    /\ LET st == GroupStep([lines |-> lines, current_line |-> current_line,
                            current_width |-> current_width],
                           word_marks[mark_idx], max_words_per_line, max_line_width)
       IN  /\ lines' = st.lines
           /\ current_line' = st.current_line
           /\ current_width' = st.current_width
    /\ mark_idx' = mark_idx + 1
    /\ UNCHANGED <<syncVars, asmVars, resizeVars, layoutVars, measureVars, retryVars, serverVars>>
    /\ UNCHANGED <<max_words_per_line, max_line_width, bottom_offset, speech_marks,
                   scene_start_time, word_marks, line_idx, all_clips, pc>>

\* lines 100-108
FlushLine ==
    /\ pc = "group"
    /\ mark_idx > Len(word_marks)
    /\ lines' = FlushLines([lines |-> lines, current_line |-> current_line])
    /\ pc' = "layout"
    /\ UNCHANGED <<syncVars, asmVars, resizeVars, layoutVars, measureVars, retryVars, serverVars>>
    /\ UNCHANGED <<max_words_per_line, max_line_width, bottom_offset, speech_marks,
                   scene_start_time, word_marks, current_line, current_width,
                   mark_idx, line_idx, all_clips>>

\* lines 110-203
LayoutLine ==
    /\ pc = "layout"
    /\ line_idx <= Len(lines)
    /\ \E fail \in FailPoints(lines[line_idx]) :
         all_clips' = all_clips \o
             LineClips(lines, line_idx, scene_start_time, bottom_offset, fail)
    /\ line_idx' = line_idx + 1
    /\ UNCHANGED <<syncVars, asmVars, resizeVars, layoutVars, measureVars, retryVars, serverVars>>
    /\ UNCHANGED <<max_words_per_line, max_line_width, bottom_offset, speech_marks,
                   scene_start_time, word_marks, lines, current_line, current_width,
                   mark_idx, pc>>

\* line 205
ReturnClips ==
    /\ pc = "layout"
    /\ line_idx > Len(lines)
    /\ pc' = "done"
    /\ UNCHANGED <<syncVars, asmVars, resizeVars, layoutVars, measureVars, retryVars, serverVars>>
    /\ UNCHANGED <<max_words_per_line, max_line_width, bottom_offset, speech_marks,
                   scene_start_time, word_marks, lines, current_line, current_width,
                   mark_idx, line_idx, all_clips>>

Next == FilterMarks \/ GroupWord \/ FlushLine \/ LayoutLine \/ ReturnClips

Spec == Init /\ [][Next]_vars

----------------------------------------------------------------------------
(* Properties of create_karaoke_clips *)

Grouped == pc \in {"layout", "done"} /\ word_marks # <<>>

ClipSet == { all_clips[j] : j \in 1..Len(all_clips) }
BaseClips == { c \in ClipSet : c.kind = "base" }
HighlightClips == { c \in ClipSet : c.kind = "highlight" }

\* estimated pixel width of a line: the per-word estimates plus word_spacing
\* between adjacent words
LineWidth(line) ==
    SumSeq([i \in 1..Len(line) |-> estimated_w(line[i])]) + (Len(line) - 1) * word_spacing

\* C1: once the grouping loop has finished on a non-empty sequence of word
\* marks, the lines concatenated in order are exactly the word marks, and no
\* line is empty.
C1_LinesPartitionMarks ==
    Grouped => /\ Flatten(lines) = word_marks
               /\ \A l \in 1..Len(lines) : lines[l] # <<>>

C1_Witness ==
    /\ pc = "done" /\ Len(word_marks) = MaxMarks /\ Len(lines) >= 2
    /\ Flatten(lines) = word_marks

\* C2: every line of two or more marks has an estimated width, spacing
\* included, of at most max_line_width (first line and later lines alike).
C2_MultiWordLinesFit ==
    Grouped => \A l \in 1..Len(lines) :
                  Len(lines[l]) >= 2 => LineWidth(lines[l]) <= max_line_width

\* C3: no line, finished or under construction, holds more than
\* max_words_per_line marks.
C3_AtMostMaxWords ==
    /\ Len(current_line) <= max_words_per_line
    /\ \A l \in 1..Len(lines) : Len(lines[l]) <= max_words_per_line

C3_Witness ==
    /\ pc = "done" /\ Len(lines) >= 2
    /\ Len(lines[1]) = max_words_per_line
    /\ Len(word_marks) > max_words_per_line

\* C4: the base overlay of line N ends exactly when the base overlay of line
\* N+1 starts.
C4_ConsecutiveLinesAbut ==
    \A a \in BaseClips, b \in BaseClips :
        b.line = a.line + 1 => a.start + a.duration = b.start

\* C10: the highlight of word i of a line starts at the word's time plus the
\* scene start time and ends at the start of word i+1 of that line, or at
\* the end of the line's base overlay for the line's last word; the duration
\* is that interval, raised to 0.1 s only when the interval is shorter.
C10_HighlightWindow ==
    \A h \in HighlightClips :
        LET line == lines[h.line]
            base == CHOOSE b \in BaseClips : b.line = h.line
            wstart == line[h.word].time + scene_start_time
            wend == IF h.word < Len(line)
                    THEN line[h.word + 1].time + scene_start_time
                    ELSE base.start + base.duration
        IN  /\ \E b \in BaseClips : b.line = h.line
            /\ h.start = wstart
            /\ h.duration = (IF wend - wstart < MinWordMs THEN MinWordMs ELSE wend - wstart)

C10_Witness ==
    /\ pc = "done"
    /\ \E h \in HighlightClips :
          /\ h.word < Len(lines[h.line])
          /\ lines[h.line][h.word + 1].time - lines[h.line][h.word].time < MinWordMs
          /\ h.duration = MinWordMs
    /\ \E h \in HighlightClips :
          /\ h.word = Len(lines[h.line])
          /\ h.line < Len(lines)
          /\ h.duration > MinWordMs
          /\ scene_start_time < 0

\* the first word's time of the line of base clip b, and the time the code
\* takes as the line's end: the next line's first word, or the last word
\* plus 0.8 s
FirstWordMs(b) == lines[b.line][1].time
LineEndMs(b) ==
    IF b.line < Len(lines) THEN lines[b.line + 1][1].time
    ELSE lines[b.line][Len(lines[b.line])].time + TrailingDisplayMs

C17_LineDurationFloor ==
    \A b \in BaseClips :
        /\ b.duration >= MinLineMs
        /\ b.start + b.duration > b.start

C17_Witness ==
    \E b \in BaseClips :
        /\ b.line < Len(lines)
        /\ lines[b.line + 1][1].time = lines[b.line][1].time
        /\ b.duration = MinLineMs

\* C18: every word highlight has start <= end and lasts at least 0.1 s.
C18_WordDurationFloor ==
    \A h \in HighlightClips :
        /\ h.duration >= MinWordMs
        /\ h.start <= h.start + h.duration

\* a last word that starts at or after the end of its line's base overlay
C18_Witness ==
    \E h \in HighlightClips : \E b \in BaseClips :
        /\ b.line = h.line
        /\ h.word = Len(lines[h.line])
        /\ h.start >= b.start + b.duration
        /\ h.duration = MinWordMs

\* the highlight clips of line idx in the returned list
HighlightsOfLine(idx) == {h \in HighlightClips : h.line = idx}

\* C13: a line whose rendering failed has no highlight clip in the output,
\* and every other line has all of its clips: each line has its base clip
\* and one highlight per word, or no highlight clip at all.
C13_FailedLineLeavesNoHighlight ==
    pc = "done" =>
        \A idx \in 1..Len(lines) :
            \/ HighlightsOfLine(idx) = {}
            \/ /\ Cardinality(HighlightsOfLine(idx)) = Len(lines[idx])
               /\ \E b \in BaseClips : b.line = idx

----------------------------------------------------------------------------
(* AnimationCompositorAgent._sync_video_to_audio *)

\* exact rationals n / d with d > 0
Rat(n, d) == [n |-> n, d |-> d]
RatEq(a, b) == a.n * b.d = b.n * a.d
RatLess(a, b) == a.n * b.d < b.n * a.d
RatAdd(a, b) == Rat(a.n * b.d + b.n * a.d, a.d * b.d)
RatSub(a, b) == Rat(a.n * b.d - b.n * a.d, a.d * b.d)
\* a / b for b > 0
RatDiv(a, b) == Rat(a.n * b.d, a.d * b.n)
\* a rational number of milliseconds rounded to the nearest millisecond
RoundMs(a) == (2 * a.n + a.d) \div (2 * a.d)

Abs(x) == IF x < 0 THEN 0 - x ELSE x

ToleranceMs == 100
MinSpeedFactor == Rat(7, 10)

DurationsMs == {0, 5900, 6000, 6100, 7000, 8000, 10000, 10050, 15000}

\* line 133
speed_factor(dv, da) == Rat(dv, da)

\* SyncBranch with the speed-factor test strict (> 0.7)
SyncBranch_StrictFactor(dv, da) ==
    IF Abs(dv - da) < ToleranceMs THEN "pass"
    ELSE IF dv > da THEN "trim"
    ELSE IF RatLess(MinSpeedFactor, speed_factor(dv, da)) THEN "stretch"
    ELSE "freeze"

\* lines 124, 127, 131, 136, 139: the branch taken
SyncBranch(dv, da) ==
    IF Abs(dv - da) < ToleranceMs THEN "pass"
    ELSE IF dv > da THEN "trim"
    ELSE IF ~RatLess(speed_factor(dv, da), MinSpeedFactor) THEN "stretch"
    ELSE "freeze"

\* line 142

\* slowed_duration at half speed instead of 0.7
slowed_duration_HalfSpeed(dv) == RatDiv(Rat(dv, 1), Rat(1, 2))

slowed_duration(dv) == RatDiv(Rat(dv, 1), MinSpeedFactor)

\* freeze_duration that forgets the 0.7 stretch of the first segment
freeze_duration_Unstretched(dv, da) == RatSub(Rat(da, 1), Rat(dv, 1))

\* line 143
freeze_duration(dv, da) == RatSub(Rat(da, 1), slowed_duration(dv))

\* lines 126, 129, 137, 141-147: the lengths of the footage segments the
\* returned clip plays one after the other.  time_transform(t -> f * t)
\* plays footage of length dv over dv / f.
SyncSegments(dv, da) ==
    LET b == SyncBranch(dv, da)
    IN  IF b = "pass" THEN <<Rat(dv, 1)>>
        ELSE IF b = "trim" THEN <<Rat(da, 1)>>
        ELSE IF b = "stretch" THEN <<RatDiv(Rat(dv, 1), speed_factor(dv, da))>>
        ELSE <<slowed_duration(dv), freeze_duration(dv, da)>>

RECURSIVE RatSum(_)
RatSum(s) == IF s = <<>> THEN Rat(0, 1) ELSE RatAdd(Head(s), RatSum(Tail(s)))

\* the audio track a VideoFileClip of length dv carries when its file has
\* one, and the AudioFileClip of length da of a scene
FootageAudio(dv) == [asset |-> "video_audio", duration |-> dv]
AudioFileClip(da) == [asset |-> "audio_clip", duration |-> da]

\* lines 124-147: the audio of the clip a branch builds from video_clip,
\* before line 151: the video's own audio, cut with the video by subclipped
BranchAudio(dv, da, va) ==
    IF va = NoAudio THEN NoAudio
    ELSE IF SyncBranch(dv, da) = "trim" THEN [va EXCEPT !.duration = da]
    ELSE va

\* with_audio that keeps the audio a clip already has
with_audio_KeepExisting(clip, audio) ==
    IF clip.audio = NoAudio THEN [clip EXCEPT !.audio = audio] ELSE clip

\* line 151: with_audio sets the clip's audio and leaves the length of the
\* video as it is
with_audio(clip, audio) == [clip EXCEPT !.audio = audio]

\* lines 120-153
sync_video_to_audio(dv, da, va) ==
    with_audio([branch |-> SyncBranch(dv, da),
                segments |-> SyncSegments(dv, da),
                duration |-> RatSum(SyncSegments(dv, da)),
                audio |-> BranchAudio(dv, da, va)],
               AudioFileClip(da))

InitSync ==
    /\ AgentDefaults
    /\ KaraokeIdle
    /\ video_duration \in DurationsMs
    /\ audio_duration \in DurationsMs
    /\ video_audio \in {NoAudio, FootageAudio(video_duration)}
    /\ synced_video = NoClip
    /\ AssemblyIdle
    /\ ResizeIdle
    /\ OthersIdle

SyncVideoToAudio ==
    /\ synced_video = NoClip
    /\ synced_video' = sync_video_to_audio(video_duration, audio_duration, video_audio)
    /\ UNCHANGED <<agentVars, karaokeVars, asmVars, resizeVars, layoutVars, measureVars, retryVars, serverVars, video_duration, audio_duration, video_audio>>

NextSync == SyncVideoToAudio

SpecSync == InitSync /\ [][NextSync]_vars

Synced == synced_video # NoClip

\* C5: the clip returned by _sync_video_to_audio lasts exactly the audio
\* duration, in every branch.
C5_SyncedLastsAudioDuration ==
    Synced => RatEq(synced_video.duration, Rat(audio_duration, 1))

RatNonNeg(a) == a.d > 0 /\ a.n >= 0

\* C16: for all durations Dv, Da >= 0 the trimmed length, the stretched
\* length and the freeze length of the returned clip are never negative; in
\* the stretch-plus-freeze branch the remainder Da - Dv / 0.7 is positive.
C16_NoNegativeDuration ==
    Synced =>
        /\ \A i \in 1..Len(synced_video.segments) : RatNonNeg(synced_video.segments[i])
        /\ RatNonNeg(synced_video.duration)
        /\ synced_video.branch = "freeze" =>
              /\ RatEq(synced_video.segments[2],
                       RatSub(Rat(audio_duration, 1), Rat(10 * video_duration, 7)))
              /\ RatLess(Rat(0, 1), synced_video.segments[2])

\* a freeze just under the 0.7 threshold, where the remainder is smallest
C16_Witness ==
    /\ Synced
    /\ synced_video.branch = "freeze"
    /\ video_duration = 7000 /\ audio_duration = 10050
    /\ RoundMs(synced_video.segments[2]) = 50

\* C19: in every branch the returned clip's audio is the whole audio clip
\* of the scene, whatever audio the video clip had.
C19_CarriesTargetAudio ==
    Synced =>
        /\ synced_video.audio.asset = "audio_clip"
        /\ synced_video.audio.duration = audio_duration

C19_Witness ==
    /\ Synced
    /\ synced_video.branch = "trim"
    /\ video_audio = FootageAudio(video_duration)
    /\ synced_video.audio = AudioFileClip(audio_duration)
    /\ RatEq(synced_video.duration, Rat(audio_duration, 1))

----------------------------------------------------------------------------
(* AnimationCompositorAgent._resize_and_crop *)

\* sizes are <<width, height>> in pixels
Sizes == (1..MaxDim) \X (1..MaxDim)

\* lines 178, 182: int() of a float product or quotient whose exact value
\* is n / d >= 0.  The float result is within rounding of n / d, so int()
\* gives the floor, or one less when n / d is a whole number and the float
\* lands just beneath it (5 / (5 / 29) gives 28.999999999999996).
IntOfQuotient(n, d) ==
    {n \div d} \cup (IF n % d = 0 /\ n \div d > 0 THEN {(n \div d) - 1} ELSE {})

\* lines 170-182: the <<new_width, new_height>> the code can compute
CropSizes(w, h, tw, th) ==
    IF w * th > tw * h
    THEN { <<nw, h>> : nw \in IntOfQuotient(h * tw, th) }
    ELSE { <<w, nh>> : nh \in IntOfQuotient(w * th, tw) }

\* a crop that starts at the corner of the frame
crop_origin_Corner(full, part) == 0

\* lines 185-189: x1 = int(w / 2 - new_width / 2), and y1 alike
crop_origin(full, part) == (full - part) \div 2

\* lines 192-201: the crop rectangle and the size of the returned clip
resize_and_crop(size, target, crop) ==
    [branch |-> "resized",
     x1 |-> crop_origin(size[1], crop[1]),
     y1 |-> crop_origin(size[2], crop[2]),
     new_width |-> crop[1],
     new_height |-> crop[2],
     size |-> target]

InitResize ==
    /\ AgentDefaults
    /\ KaraokeIdle
    /\ SyncIdle
    /\ AssemblyIdle
    /\ video_size \in Sizes
    /\ target_size \in Sizes
    /\ resized = NoClip
    /\ OthersIdle

ResizeAndCrop ==
    /\ resized = NoClip
    /\ \E crop \in CropSizes(video_size[1], video_size[2], target_size[1], target_size[2]) :
           resized' = resize_and_crop(video_size, target_size, crop)
    /\ UNCHANGED <<agentVars, karaokeVars, syncVars, asmVars, layoutVars, measureVars, retryVars, serverVars, video_size, target_size>>

NextResize == ResizeAndCrop

SpecResize == InitResize /\ [][NextResize]_vars

Resized == resized # NoClip

WidthCropped == resized.new_width < video_size[1]
HeightCropped == resized.new_height < video_size[2]
SameAspect == video_size[1] * target_size[2] = target_size[1] * video_size[2]

\* the crop rectangle lies inside the source frame and the margins on
\* opposite sides differ by at most one pixel
CropCentredInside ==
    LET w == video_size[1]
        h == video_size[2]
        right == w - resized.x1 - resized.new_width
        bottom == h - resized.y1 - resized.new_height
    IN  /\ resized.x1 >= 0 /\ resized.y1 >= 0
        /\ right >= 0 /\ bottom >= 0
        /\ Abs(right - resized.x1) <= 1
        /\ Abs(bottom - resized.y1) <= 1

\* C20 as stated: for every source and target size exactly one of width
\* and height is cropped, the crop rectangle is centred inside the source
\* and the result has the target size.
C20_ExactlyOneCropped ==
    Resized =>
        /\ WidthCropped # HeightCropped
        /\ CropCentredInside
        /\ resized.size = target_size

\* C20 (amended): at most one of width and height is cropped, exactly one
\* whenever the source's aspect ratio differs from the target's; the crop
\* rectangle is inside the source with margins on opposite sides differing
\* by at most one pixel; a crop of positive size is scaled to the target
\* size.
C20_AtMostOneCropped ==
    Resized =>
        /\ ~(WidthCropped /\ HeightCropped)
        /\ ~SameAspect => (WidthCropped # HeightCropped)
        /\ CropCentredInside
        /\ (resized.new_width > 0 /\ resized.new_height > 0) => resized.size = target_size

\* a source wider than the target with an odd number of columns to drop
C20_Witness ==
    /\ Resized
    /\ WidthCropped /\ ~HeightCropped
    /\ resized.new_width > 0
    /\ resized.x1 + 1 = video_size[1] - resized.x1 - resized.new_width
    /\ resized.size = target_size /\ target_size # video_size

----------------------------------------------------------------------------
(* create_karaoke_clips as a function of its arguments *)

RECURSIVE GroupAll(_, _, _, _)
GroupAll(st, marks, mwpl, mlw) ==
    IF marks = <<>> THEN st
    ELSE GroupAll(GroupStep(st, Head(marks), mwpl, mlw), Tail(marks), mwpl, mlw)

\* lines 78-101
LinesOf(wm, mwpl, mlw) ==
    FlushLines(GroupAll([lines |-> <<>>, current_line |-> <<>>, current_width |-> 0],
                        wm, mwpl, mlw))

\* one fail point per line
FailChoices(ls) ==
    { f \in [1..Len(ls) -> 0..(Len(Flatten(ls)) + 2)] :
        \A l \in 1..Len(ls) : f[l] \in FailPoints(ls[l]) }

\* lines 70-205
create_karaoke_clips(marks, sst, boff, mwpl, mlw, failf) ==
    IF marks = <<>> \/ WordMarksOf(marks) = <<>> THEN <<>>
    ELSE LET ls == LinesOf(WordMarksOf(marks), mwpl, mlw)
         IN  Flatten([l \in 1..Len(ls) |-> LineClips(ls, l, sst, boff, failf[l])])

----------------------------------------------------------------------------
(* Further properties of the lines and clips of create_karaoke_clips *)

\* the rule of the claim: a new line is started before mark when the line
\* built so far is full, or is non-empty and would be wider than
\* max_line_width with the spacing and the mark added
StartsNewLine(line, mark) ==
    \/ Len(line) >= max_words_per_line
    \/ /\ line # <<>>
       /\ LineWidth(line) + word_spacing + estimated_w(mark) > max_line_width

\* C21: a new line is started before a mark exactly when the current line
\* is full or is non-empty and its width plus spacing plus the mark's
\* estimated width exceeds max_line_width, on the first line and on later
\* lines alike.
C21_BreakRuleOnEveryLine ==
    Grouped =>
        \A l \in 1..Len(lines) :
            /\ l < Len(lines) => StartsNewLine(lines[l], lines[l + 1][1])
            /\ \A j \in 2..Len(lines[l]) :
                   ~StartsNewLine(SubSeq(lines[l], 1, j - 1), lines[l][j])

\* C24: the words from the start of any line on are split the same way
\* as when they are packed from the start of an utterance.
C24_PackingIndependentOfPosition ==
    Grouped =>
        \A l \in 1..Len(lines) :
            LinesOf(Flatten(SubSeq(lines, l, Len(lines))), max_words_per_line, max_line_width)
                = SubSeq(lines, l, Len(lines))

\* C25: the highlight windows of two different words of one line never
\* overlap in time.
C25_HighlightsOfALineDisjoint ==
    \A h1 \in HighlightClips : \A h2 \in HighlightClips :
        (h1.line = h2.line /\ h1.word < h2.word) =>
            h1.start + h1.duration <= h2.start

\* C26: every highlight window lies inside the window of the base overlay
\* of its line.
C26_HighlightInsideBaseWindow ==
    \A h \in HighlightClips : \A b \in BaseClips :
        b.line = h.line =>
            /\ b.start <= h.start
            /\ h.start + h.duration <= b.start + b.duration

----------------------------------------------------------------------------
(* Assembly of a reel: AnimatedReelOrchestrator.create_animated_reel,      *)
(* resume_from_composition and VideoAgent.create_video                     *)

EstimatesMs == {4000, 5000}
AudioMs == {0, 5950}
MarkKinds == {"missing", "empty", "nowords", "words", "malformed"}

\* what the pipeline that produced the files can have left on disk: the
\* animated pipeline always writes the speech-marks file (voice_agent.py
\* 213-217), the image pipeline writes it only when it is non-empty
\* (voice_agent.py 89-93), the resume script reads whatever is there
MarkKindsOf(p) ==
    IF p = "animated" THEN {"empty", "words"}
    ELSE IF p = "video" THEN {"missing", "words"}
    ELSE MarkKinds

\* TextOverlayAgent.load_speech_marks (lines 28-45) on a file of each kind
load_speech_marks(kind) ==
    IF kind = "words" THEN ScenarioA
    ELSE IF kind = "nowords"
         THEN <<[type |-> "sentence", value |-> SentenceValue, time |-> 0]>>
    ELSE IF kind = "malformed"
         THEN <<[type |-> "word", value |-> <<"a">>]>>
    ELSE <<>>

\* text_overlay_agent.py 113-117: line[0]["time"] is read outside the try
\* block of the line, so a word mark without "time" raises KeyError out of
\* create_karaoke_clips
KaraokeRaises(marks) ==
    \E i \in 1..Len(marks) : marks[i].type = "word" /\ "time" \notin DOMAIN marks[i]

SceneLists(p) ==
    UNION { { sc \in [1..n -> [dialogue : BOOLEAN, duration_seconds : EstimatesMs,
                               audio_ms : AudioMs, marks : MarkKinds]] :
                \A k \in 1..n : sc[k].marks \in MarkKindsOf(p) } :
            n \in 1..MaxScenes }

\* DialogueOverlayAgent._create_static_dialogue (lines 192-209);
\* ok = FALSE when TextClip raises and None is returned
create_static_dialogue(start_time, duration, ok) ==
    IF ok THEN <<[kind |-> "static", line |-> 0, word |-> 0, start |-> start_time,
                  duration |-> duration, y |-> dialogue_y_offset]>>
    ELSE <<>>

\* DialogueOverlayAgent.create_dialogue_overlay_clips (lines 52-80) with
\* _create_dialogue_karaoke (lines 157-171), which runs create_karaoke_clips
\* with bottom_offset = video_size[1] - dialogue_y_offset
create_dialogue_overlay_clips(kind, sst, scene_duration, mwpl, mlw, ok, failf) ==
    IF load_speech_marks(kind) = <<>>
    THEN create_static_dialogue(sst, scene_duration, ok)
    ELSE create_karaoke_clips(load_speech_marks(kind), sst,
                              video_height - dialogue_y_offset, mwpl, mlw, failf)

\* the fail points of the lines of a speech-marks file
FailChoicesOf(kind, mwpl, mlw) ==
    FailChoices(LinesOf(WordMarksOf(load_speech_marks(kind)), mwpl, mlw))

InitAssembly ==
    /\ AgentDefaults
    /\ KaraokeIdle
    /\ SyncIdle
    /\ ResizeIdle
    /\ OthersIdle
    /\ path \in {"animated", "resume", "video"}
    /\ scenes \in SceneLists(path)
    /\ audio_data = <<>>
    /\ scene_start_times = <<>>
    /\ cumulative_time = 0
    /\ scene_idx = 1
    /\ composite_clips = <<>>
    /\ clips = <<>>
    /\ all_dialogue_clips = <<>>
    /\ overlay_calls = <<>>
    /\ apc = IF path = "animated" THEN "voice"
             ELSE IF path = "resume" THEN "collect" ELSE "validate"

AudioEntry(k) ==
    [scene_number |-> k, audio_ms |-> scenes[k].audio_ms, marks |-> scenes[k].marks,
     exists |-> scenes[k].dialogue]

\* VoiceAgent.generate_audio_for_animated_scenes, one iteration (voice_agent.py
\* 126-153): a scene without dialogue gets no entry
GenerateAudio ==
    /\ apc = "voice"
    /\ scene_idx <= Len(scenes)
    /\ audio_data' = IF scenes[scene_idx].dialogue
                     THEN Append(audio_data, AudioEntry(scene_idx))
                     ELSE audio_data
    /\ scene_idx' = scene_idx + 1
    /\ UNCHANGED <<agentVars, karaokeVars, syncVars, resizeVars, layoutVars, measureVars, retryVars, serverVars, composite_clips, path, scenes, scene_start_times,
                   cumulative_time, clips, all_dialogue_clips, overlay_calls, apc>>

\* voice_agent.py 155-157: a synthesis error is re-raised and the
\* orchestrator aborts (animated_reel_orchestrator.py 211-215)
GenerateAudioRaises ==
    /\ apc = "voice"
    /\ scene_idx <= Len(scenes)
    /\ scenes[scene_idx].dialogue
    /\ apc' = "raised"
    /\ UNCHANGED <<agentVars, karaokeVars, syncVars, resizeVars, layoutVars, measureVars, retryVars, serverVars, composite_clips, path, scenes, audio_data,
                   scene_start_times, cumulative_time, scene_idx,
                   clips, all_dialogue_clips, overlay_calls>>

\* voice_agent.py 159, animated_reel_orchestrator.py 163
AudioGenerated ==
    /\ apc = "voice"
    /\ scene_idx > Len(scenes)
    /\ scene_idx' = 1
    /\ apc' = "composite"
    /\ UNCHANGED <<agentVars, karaokeVars, syncVars, resizeVars, layoutVars, measureVars, retryVars, serverVars, composite_clips, path, scenes, audio_data,
                   scene_start_times, cumulative_time, clips, all_dialogue_clips, overlay_calls>>

\* resume_composition.py 53-64: one entry per scene, by file name
CollectAudio ==
    /\ apc = "collect"
    /\ audio_data' = [k \in 1..Len(scenes) |-> AudioEntry(k)]
    /\ scene_idx' = 1
    /\ apc' = "composite"
    /\ UNCHANGED <<agentVars, karaokeVars, syncVars, resizeVars, layoutVars, measureVars, retryVars, serverVars, composite_clips, path, scenes, scene_start_times,
                   cumulative_time, clips, all_dialogue_clips, overlay_calls>>

\* the scene videos of Nova Reel: 6 s of 1280x720 footage
\* (animated_visual_agent.py 132-134)
NovaReelMs == 6000
NovaReelSize == <<1280, 720>>

\* composite_scenes' default target_size (animation_compositor_agent.py 25)
default_target_size == <<1080, 1920>>

\* animation_compositor_agent.py 47: the VideoFileClip of a scene video
VideoFileClip(k) ==
    [video |-> k, synced |-> FALSE, audio_scene |-> 0, duration |-> Rat(NovaReelMs, 1),
     audio |-> FootageAudio(NovaReelMs), size |-> NovaReelSize]

\* animation_compositor_agent.py 55-65: the clip synced to the audio of
\* entry audio_dict and brought to the target size
SyncedSceneClip(k, audio_dict) ==
    LET sv == sync_video_to_audio(NovaReelMs, audio_dict.audio_ms, FootageAudio(NovaReelMs))
    IN  [video |-> k, synced |-> TRUE, audio_scene |-> audio_dict.scene_number,
         duration |-> sv.duration, audio |-> sv.audio, size |-> default_target_size]

\* AnimationCompositorAgent.composite_scenes, one iteration of the loop
\* over zip(scene_videos, audio_data) (lines 43-67): without an audio file
\* the video clip is appended as it was loaded
CompositeScene ==
    /\ apc = "composite"
    /\ scene_idx <= Min(Len(scenes), Len(audio_data))
    /\ composite_clips' = Append(composite_clips,
           IF audio_data[scene_idx].exists
           THEN SyncedSceneClip(scene_idx, audio_data[scene_idx])
           ELSE VideoFileClip(scene_idx))
    /\ scene_idx' = scene_idx + 1
    /\ UNCHANGED <<agentVars, karaokeVars, syncVars, resizeVars, layoutVars, measureVars, retryVars, serverVars, path, scenes, audio_data,
                   scene_start_times, cumulative_time, clips, all_dialogue_clips,
                   overlay_calls, apc>>

\* animation_compositor_agent.py 74-103: the clips are concatenated and
\* written; _concatenate_with_crossfade raises on an empty list (line 218)
\* and the caller stops (animated_reel_orchestrator.py 211-215,
\* resume_composition.py 78-82)
CompositeDone ==
    /\ apc = "composite"
    /\ scene_idx > Min(Len(scenes), Len(audio_data))
    /\ scene_idx' = 1
    /\ apc' = IF composite_clips = <<>> THEN "raised" ELSE "starts"
    /\ UNCHANGED <<agentVars, karaokeVars, syncVars, resizeVars, layoutVars, measureVars, retryVars, serverVars, composite_clips, path, scenes,
                   audio_data, scene_start_times, cumulative_time, clips,
                   all_dialogue_clips, overlay_calls>>

\* _calculate_scene_start_times (animated_reel_orchestrator.py 232-240) and
\* resume_composition.py 93-102, one iteration; AudioFileClip raises on a
\* file that does not exist
CalcStartTime ==
    /\ apc = "starts"
    /\ scene_idx <= Len(audio_data)
    /\ IF audio_data[scene_idx].exists
       THEN /\ scene_start_times' = Append(scene_start_times, cumulative_time)
            /\ cumulative_time' = cumulative_time + audio_data[scene_idx].audio_ms
            /\ scene_idx' = scene_idx + 1
            /\ apc' = apc
       ELSE /\ scene_start_times' = Append(scene_start_times, cumulative_time)
            /\ apc' = "raised"
            /\ UNCHANGED <<cumulative_time, scene_idx>>
    /\ UNCHANGED <<agentVars, karaokeVars, syncVars, resizeVars, layoutVars, measureVars, retryVars, serverVars, composite_clips, path, scenes, audio_data,
                   clips, all_dialogue_clips, overlay_calls>>

\* animated_reel_orchestrator.py 242, 165-170
StartTimesDone ==
    /\ apc = "starts"
    /\ scene_idx > Len(audio_data)
    /\ scene_idx' = 1
    /\ apc' = "overlays"
    /\ UNCHANGED <<agentVars, karaokeVars, syncVars, resizeVars, layoutVars, measureVars, retryVars, serverVars, composite_clips, path, scenes, audio_data,
                   scene_start_times, cumulative_time, clips, all_dialogue_clips, overlay_calls>>

\* _create_dialogue_karaoke (dialogue_overlay_agent.py 157-169): line 158
\* sets bottom_offset, line 169 restores it, and an exception of
\* create_karaoke_clips (line 161) passes line 169 by
dialogue_bottom_offset == video_height - dialogue_y_offset

\* an error handler that re-raises and so ends the loop
after_overlay_error_Abort == "raised"

\* dialogue_overlay_agent.py 274-275: the error is printed and the loop
\* goes on with the next scene
after_overlay_error == "overlays"

\* create_dialogue_overlays_for_scenes, one iteration of the loop over
\* zip(scenes, audio_data) (dialogue_overlay_agent.py 236-275)
OverlayScene ==
    /\ apc = "overlays"
    /\ scene_idx <= Min(Len(scenes), Len(audio_data))
    /\ LET scene == scenes[scene_idx]
           audio_dict == audio_data[scene_idx]
           start_time == scene_start_times[scene_idx]
           duration == scene.duration_seconds
       IN  IF ~scene.dialogue
           THEN UNCHANGED <<all_dialogue_clips, overlay_calls, bottom_offset, apc>>
           ELSE IF KaraokeRaises(load_speech_marks(audio_dict.marks))
           THEN /\ bottom_offset' = dialogue_bottom_offset
                /\ overlay_calls' = Append(overlay_calls,
                       [scene |-> scene_idx, audio_scene |-> audio_dict.scene_number,
                        marks |-> audio_dict.marks, start |-> start_time,
                        render_ok |-> FALSE, raised |-> TRUE, clips |-> <<>>])
                /\ apc' = after_overlay_error
                /\ UNCHANGED all_dialogue_clips
           ELSE \E ok \in BOOLEAN :
                \E failf \in FailChoicesOf(audio_dict.marks, max_words_per_line, max_line_width) :
                  LET made == create_dialogue_overlay_clips(audio_dict.marks, start_time,
                                   duration, max_words_per_line, max_line_width, ok, failf)
                  IN  /\ all_dialogue_clips' = all_dialogue_clips \o made
                      /\ overlay_calls' = Append(overlay_calls,
                             [scene |-> scene_idx, audio_scene |-> audio_dict.scene_number,
                              marks |-> audio_dict.marks, start |-> start_time,
                              render_ok |-> ok, raised |-> FALSE, clips |-> made])
                      /\ UNCHANGED <<bottom_offset, apc>>
    /\ scene_idx' = scene_idx + 1
    /\ UNCHANGED <<max_words_per_line, max_line_width, karaokeVars, syncVars, resizeVars, layoutVars, measureVars, retryVars, serverVars,
                   composite_clips, path, scenes, audio_data,
                   scene_start_times, cumulative_time, clips>>

\* dialogue_overlay_agent.py 277
OverlaysDone ==
    /\ apc = "overlays"
    /\ scene_idx > Min(Len(scenes), Len(audio_data))
    /\ apc' = "done"
    /\ UNCHANGED <<agentVars, karaokeVars, syncVars, resizeVars, layoutVars, measureVars, retryVars, serverVars, composite_clips, path, scenes, audio_data,
                   scene_start_times, cumulative_time, scene_idx,
                   clips, all_dialogue_clips, overlay_calls>>

\* VideoAgent.create_video, video_agent.py 30-37: VoiceAgent.generate_audio
\* writes no mp3 for an empty voice_line (voice_agent.py 63-64), and a
\* count that differs from the number of scenes raises
VideoValidate ==
    /\ apc = "validate"
    /\ apc' = IF \A k \in 1..Len(scenes) : scenes[k].dialogue THEN "video" ELSE "raised"
    /\ UNCHANGED <<agentVars, karaokeVars, syncVars, resizeVars, layoutVars, measureVars, retryVars, serverVars, composite_clips, path, scenes, audio_data,
                   scene_start_times, cumulative_time, scene_idx,
                   clips, all_dialogue_clips, overlay_calls>>

\* video_agent.py 40, story mode
OverlapMs == 300

\* the duration a scene advances current_time by, video_agent.py 64-67
video_audio_duration(scene) ==
    IF scene.audio_ms <= 0 THEN scene.duration_seconds ELSE scene.audio_ms

\* video_agent.py 47-99, one iteration; raises = an exception of the try
\* block before the text overlay (lines 63-83), handled at line 98
VideoScene ==
    /\ apc = "video"
    /\ scene_idx <= Len(scenes)
    /\ \E raises \in BOOLEAN :
         IF raises
         THEN UNCHANGED <<cumulative_time, clips, all_dialogue_clips, overlay_calls>>
         ELSE LET scene == scenes[scene_idx]
              IN  /\ cumulative_time' = cumulative_time + video_audio_duration(scene)
                  /\ clips' = Append(clips, [scene |-> scene_idx,
                                  duration |-> video_audio_duration(scene) + OverlapMs])
                  /\ IF scene.marks = "missing"
                     THEN UNCHANGED <<all_dialogue_clips, overlay_calls>>
                     ELSE \E failf \in FailChoicesOf(scene.marks, max_words_per_line, max_line_width) :
                            LET made == create_karaoke_clips(load_speech_marks(scene.marks),
                                             cumulative_time, bottom_offset,
                                             max_words_per_line, max_line_width, failf)
                            IN  /\ all_dialogue_clips' = all_dialogue_clips \o made
                                /\ overlay_calls' = Append(overlay_calls,
                                       [scene |-> scene_idx, audio_scene |-> scene_idx,
                                        marks |-> scene.marks, start |-> cumulative_time,
                                        render_ok |-> TRUE, raised |-> FALSE, clips |-> made])
    /\ scene_idx' = scene_idx + 1
    /\ UNCHANGED <<agentVars, karaokeVars, syncVars, resizeVars, layoutVars, measureVars, retryVars, serverVars, composite_clips, path, scenes, audio_data,
                   scene_start_times, apc>>

\* video_agent.py 101-118
VideoDone ==
    /\ apc = "video"
    /\ scene_idx > Len(scenes)
    /\ apc' = "done"
    /\ UNCHANGED <<agentVars, karaokeVars, syncVars, resizeVars, layoutVars, measureVars, retryVars, serverVars, composite_clips, path, scenes, audio_data,
                   scene_start_times, cumulative_time, scene_idx,
                   clips, all_dialogue_clips, overlay_calls>>

NextAssembly ==
    \/ GenerateAudio \/ GenerateAudioRaises \/ AudioGenerated
    \/ CollectAudio \/ CompositeScene \/ CompositeDone
    \/ CalcStartTime \/ StartTimesDone
    \/ OverlayScene \/ OverlaysDone
    \/ VideoValidate \/ VideoScene \/ VideoDone

SpecAssembly == InitAssembly /\ [][NextAssembly]_vars

----------------------------------------------------------------------------
(* Properties of the assembly *)

RECURSIVE SumOver(_, _)
SumOver(S, f) ==
    IF S = {} THEN 0
    ELSE LET x == CHOOSE y \in S : TRUE IN f[x] + SumOver(S \ {x}, f)

\* the scenes that have a place in the timeline: in the image pipeline the
\* scenes whose clip was appended, in the animated pipelines the scenes
\* that have dialogue and therefore audio
InTimeline(j) ==
    IF path = "video" THEN \E i \in 1..Len(clips) : clips[i].scene = j
    ELSE scenes[j].dialogue

\* sum of the measured audio durations of the scenes before scene k
MeasuredStart(k) ==
    SumOver({ j \in 1..(k - 1) : InTimeline(j) }, [j \in 1..Len(scenes) |-> scenes[j].audio_ms])

\* C12: composite_scenes never places a clip that was not reconciled with
\* its scene's audio: every clip of the composite carries the scene's audio
\* clip and has the target size.
C12_NoUnsyncedClipPlaced ==
    \A i \in 1..Len(composite_clips) :
        /\ composite_clips[i].synced
        /\ composite_clips[i].audio.asset = "audio_clip"
        /\ composite_clips[i].size = default_target_size

\* the call of create_dialogue_overlay_clips for scene k, if one was made
CallsOf(k) == { i \in 1..Len(overlay_calls) : overlay_calls[i].scene = k }
SomeOverlayFailed == \E i \in 1..Len(overlay_calls) : overlay_calls[i].raised

\* C14: in create_dialogue_overlays_for_scenes a failure building one
\* scene's overlay never aborts the batch: the loop goes on and the call
\* returns, and the returned list is the clips of every scene with dialogue
\* whose build did not fail, in scene order.
C14_FailureDoesNotAbortBatch ==
    (path # "video" /\ SomeOverlayFailed) =>
        /\ apc \in {"overlays", "done"}
        /\ all_dialogue_clips = Flatten([i \in 1..Len(overlay_calls) |-> overlay_calls[i].clips])
        /\ apc = "done" =>
              \A k \in 1..Len(scenes) :
                  scenes[k].dialogue => Cardinality(CallsOf(k)) = 1

\* the first scene's build raised, the batch returned, and the second
\* scene's karaoke clips are in the list
C14_Witness ==
    /\ apc = "done"
    /\ Len(overlay_calls) = 2
    /\ overlay_calls[1].raised
    /\ ~overlay_calls[2].raised
    /\ overlay_calls[2].clips # <<>>
    /\ all_dialogue_clips = overlay_calls[2].clips

\* C15: a call of _create_dialogue_karaoke or create_karaoke_clips, whether
\* it returns or raises, leaves bottom_offset as it was before the call.
C15_BottomOffsetRestored == [][bottom_offset' = bottom_offset]_vars

\* C28: in the animated pipeline the audio entry paired with scene k's
\* video and with scene k's dialogue is the entry generated for scene k,
\* and every scene that has dialogue gets its own overlay and its own
\* reconciled clip.
C28_PairedWithOwnAudio ==
    path = "animated" =>
        /\ \A i \in 1..Len(composite_clips) :
               composite_clips[i].synced =>
                   composite_clips[i].audio_scene = composite_clips[i].video
        /\ \A i \in 1..Len(overlay_calls) :
               overlay_calls[i].audio_scene = overlay_calls[i].scene
        /\ apc = "done" =>
               \A k \in 1..Len(scenes) :
                   scenes[k].dialogue =>
                       /\ CallsOf(k) # {}
                       /\ \E i \in 1..Len(composite_clips) :
                              /\ composite_clips[i].video = k
                              /\ composite_clips[i].audio_scene = k

\* where the i-th clip starts in the concatenated composite: the sum of
\* the durations of the clips before it (straight cuts,
\* animation_compositor_agent.py 222-230)
CompositeStart(i) == RatSum(SubSeq([j \in 1..Len(composite_clips) |-> composite_clips[j].duration], 1, i - 1))

\* C29: the start time given to the overlays of the i-th scene equals the
\* position at which the i-th scene's clip starts in the composite video.
C29_OverlayStartsWithClip ==
    path \in {"animated", "resume"} =>
        \A i \in 1..Len(overlay_calls) :
            RatEq(Rat(overlay_calls[i].start, 1), CompositeStart(overlay_calls[i].scene))

\* C8: an utterance without word marks (speech-marks file missing, empty or
\* without a record of type "word") gets, unless rendering the text itself
\* raises, exactly one static overlay that starts at the scene's start time
\* and lasts the measured audio duration of the utterance.
C8_StaticFallbackSpansUtterance ==
    \A i \in 1..Len(overlay_calls) :
        LET c == overlay_calls[i]
        IN  (path # "video" /\ c.render_ok
             /\ WordMarksOf(load_speech_marks(c.marks)) = <<>>) =>
                /\ Len(c.clips) = 1
                /\ c.clips[1].kind = "static"
                /\ c.clips[1].start = c.start
                /\ c.clips[1].duration = scenes[c.scene].audio_ms

\* C9: the start time handed to the overlays of scene k is the sum of the
\* measured audio durations of the scenes before k, in every pipeline.
C9_StartIsSumOfMeasuredAudio ==
    \A i \in 1..Len(overlay_calls) :
        overlay_calls[i].start = MeasuredStart(overlay_calls[i].scene)

----------------------------------------------------------------------------
(* The vertical layout of create_karaoke_clips (text_overlay_agent.py      *)
(* 103-111) as a function of the number of lines and of bottom_offset      *)

MaxLines == 10

InitLayout ==
    /\ AgentDefaults
    /\ KaraokeIdle
    /\ SyncIdle
    /\ AssemblyIdle
    /\ ResizeIdle
    /\ MeasureIdle /\ RetryIdle /\ ServerIdle
    /\ n_lines \in 1..MaxLines
    /\ layout_offset \in {default_bottom_offset, dialogue_bottom_offset}
    /\ y_positions = <<>>

\* lines 110-111, one iteration: the y of line number Len(y_positions)
PlaceLine ==
    /\ n_lines > 0
    /\ Len(y_positions) < n_lines
    /\ y_positions' = Append(y_positions,
                             text_y_pos(n_lines, Len(y_positions), layout_offset))
    /\ UNCHANGED <<agentVars, karaokeVars, syncVars, asmVars, resizeVars,
                   measureVars, retryVars, serverVars, n_lines, layout_offset>>

NextLayout == PlaceLine

SpecLayout == InitLayout /\ [][NextLayout]_vars

\* C27: for any number of lines, every line's y lies inside the frame,
\* 0 <= y < video_height, with the default bottom_offset and with the one
\* _create_dialogue_karaoke sets.
C27_LinesInsideFrame ==
    \A i \in 1..Len(y_positions) :
        0 <= y_positions[i] /\ y_positions[i] < video_height

----------------------------------------------------------------------------
(* The word loop of one line of create_karaoke_clips (text_overlay_agent.py *)
(* 154-199): character ranges, measured prefixes, crops and positions      *)

video_width == 1080
TextMargin == 20

\* the lines the word loop can be given: up to max_words_per_line words
MeasuredLines ==
    UNION { [1..n -> WordValues] : n \in 1..default_max_words_per_line }

\* the advance of a letter and of a space in the font: any widths, so that
\* a longer prefix never measures narrower (a renderer that gives a space
\* no width is included)
GlyphWidths == {20, 30}
SpaceWidths == {0, 14}

\* line 123: " ".join(words_in_line), as a sequence of characters
RECURSIVE full_line_text(_)
full_line_text(line) ==
    IF line = <<>> THEN <<>>
    ELSE IF Len(line) = 1 THEN line[1]
    ELSE line[1] \o <<" ">> \o full_line_text(Tail(line))

\* the width the font gives a text
text_width(text, gw, sw) ==
    SumSeq([k \in 1..Len(text) |-> IF text[k] = " " THEN sw ELSE gw])

\* TextClip(..., margin=(20, 20)).size[0]: the text and a margin on each side
clip_width(text, gw, sw) == text_width(text, gw, sw) + 2 * TextMargin

\* line 154; the widths drawn here are even
line_x_start(line, gw, sw) ==
    (video_width - clip_width(full_line_text(line), gw, sw)) \div 2

\* text[:n]
Prefix(text, n) == SubSeq(text, 1, n)

\* a character pointer that forgets the space between two words
next_char_ptr_NoSpace(ptr, word_val) == ptr + Len(word_val)

\* line 199
next_char_ptr(ptr, word_val) == ptr + Len(word_val) + 1

\* lines 158-196 for word i (1-based) at character pointer ptr
WordCrop(line, i, ptr, gw, sw, y) ==
    LET start_idx == ptr
        end_idx == ptr + Len(line[i])
        p1_text == Prefix(full_line_text(line), start_idx)
        p2_text == Prefix(full_line_text(line), end_idx)
        x1 == IF p1_text # <<>> THEN clip_width(p1_text, gw, sw) - TextMargin ELSE 0
        x2 == clip_width(p2_text, gw, sw) - TextMargin
    IN  [word |-> i, start_idx |-> start_idx, end_idx |-> end_idx,
         p1_text |-> p1_text, p2_text |-> p2_text,
         x1 |-> x1, width |-> x2 - x1,
         pos |-> <<line_x_start(line, gw, sw) + x1, y>>]

InitMeasure ==
    /\ AgentDefaults
    /\ KaraokeIdle
    /\ SyncIdle
    /\ AssemblyIdle
    /\ ResizeIdle
    /\ LayoutIdle /\ RetryIdle /\ ServerIdle
    /\ measured_line \in MeasuredLines
    /\ glyph_w \in GlyphWidths
    /\ space_w \in SpaceWidths
    /\ char_ptr = 0
    /\ crops = <<>>

\* one iteration of the word loop, lines 157-199
MeasureWord ==
    /\ measured_line # <<>>
    /\ Len(crops) < Len(measured_line)
    /\ LET i == Len(crops) + 1
       IN  /\ crops' = Append(crops, WordCrop(measured_line, i, char_ptr, glyph_w, space_w,
                                              text_y_pos(1, 0, bottom_offset)))
           /\ char_ptr' = next_char_ptr(char_ptr, measured_line[i])
    /\ UNCHANGED <<agentVars, karaokeVars, syncVars, asmVars, resizeVars,
                   layoutVars, retryVars, serverVars, measured_line, glyph_w, space_w>>

NextMeasure == MeasureWord

SpecMeasure == InitMeasure /\ [][NextMeasure]_vars

\* the text of the line up to just before word i, the separating space
\* included, and up to the end of word i
TextBefore(i) ==
    IF i = 1 THEN <<>>
    ELSE full_line_text(SubSeq(measured_line, 1, i - 1)) \o <<" ">>
TextThrough(i) == full_line_text(SubSeq(measured_line, 1, i))

\* C22: for every word i of a line the measured prefixes are the line text
\* up to just before word i and up to the end of word i, the range
\* [start_idx, end_idx) is word i's occurrence in the line text, the crops
\* satisfy x1_i < x2_i <= x1_(i+1) with the first starting at 0, and each
\* highlight is placed at (line_x_start + x1_i, y of the base line).
C22_CropsFollowWords ==
    \A i \in 1..Len(crops) :
        LET c == crops[i]
            text == full_line_text(measured_line)
        IN  /\ c.p1_text = TextBefore(i)
            /\ c.p2_text = TextThrough(i)
            /\ SubSeq(text, c.start_idx + 1, c.end_idx) = measured_line[i]
            /\ c.start_idx = Len(TextBefore(i))
            /\ c.width > 0
            /\ i < Len(crops) => c.x1 + c.width <= crops[i + 1].x1
            /\ crops[1].x1 = 0
            /\ c.pos[1] = (video_width - (text_width(text, glyph_w, space_w) + 40)) \div 2 + c.x1
            /\ c.pos[2] = text_y_pos(1, 0, bottom_offset)

\* a line of three words measured to its end, the middle word of two
\* letters, in a font whose space has a width
C22_Witness ==
    /\ Len(measured_line) = 3
    /\ Len(crops) = 3
    /\ Len(measured_line[2]) = 2
    /\ space_w > 0
    /\ crops[2].x1 > crops[1].x1 + crops[1].width
    /\ crops[3].start_idx = Len(measured_line[1]) + Len(measured_line[2]) + 2

----------------------------------------------------------------------------
(* AnimatedVisualAgent._start_async_invoke_direct, the retry loop          *)
(* (animated_visual_agent.py 290-314)                                      *)

max_retries == 5
base_delay == 10

\* the status codes the service can answer a request with
StatusCodes == {200, 429, 500}

\* a delay that grows by base_delay per attempt instead of doubling
retry_delay_Linear(n) == base_delay * (n + 1)

\* line 304
retry_delay(n) == base_delay * (2 ^ n)

InitRetry ==
    /\ AgentDefaults
    /\ KaraokeIdle
    /\ SyncIdle
    /\ AssemblyIdle
    /\ ResizeIdle
    /\ LayoutIdle /\ MeasureIdle /\ ServerIdle
    /\ responses \in [1..max_retries -> StatusCodes]
    /\ attempt = 0
    /\ http_requests = 0
    /\ slept = <<>>
    /\ rpc = "post"

\* line 295: the request of this attempt and the status it is answered with
Posting == rpc = "post" /\ attempt < max_retries
status_code == responses[attempt + 1]

\* lines 297-299
PostReturnsArn ==
    /\ Posting
    /\ status_code = 200
    /\ http_requests' = http_requests + 1
    /\ rpc' = "returned"
    /\ UNCHANGED <<agentVars, karaokeVars, syncVars, asmVars, resizeVars,
                   layoutVars, measureVars, serverVars, responses, attempt, slept>>

\* lines 301-306: sleep, then the next attempt
PostRateLimited ==
    /\ Posting
    /\ status_code = 429
    /\ attempt < max_retries - 1
    /\ http_requests' = http_requests + 1
    /\ slept' = Append(slept, retry_delay(attempt))
    /\ attempt' = attempt + 1
    /\ UNCHANGED <<agentVars, karaokeVars, syncVars, asmVars, resizeVars,
                   layoutVars, measureVars, serverVars, responses, rpc>>

\* lines 307-308: the last attempt raises without sleeping
PostGivesUp ==
    /\ Posting
    /\ status_code = 429
    /\ attempt >= max_retries - 1
    /\ http_requests' = http_requests + 1
    /\ rpc' = "raised"
    /\ UNCHANGED <<agentVars, karaokeVars, syncVars, asmVars, resizeVars,
                   layoutVars, measureVars, serverVars, responses, attempt, slept>>

\* lines 310-312
PostFails ==
    /\ Posting
    /\ status_code \notin {200, 429}
    /\ http_requests' = http_requests + 1
    /\ rpc' = "raised"
    /\ UNCHANGED <<agentVars, karaokeVars, syncVars, asmVars, resizeVars,
                   layoutVars, measureVars, serverVars, responses, attempt, slept>>

NextRetry == PostReturnsArn \/ PostRateLimited \/ PostGivesUp \/ PostFails

SpecRetry == InitRetry /\ [][NextRetry]_vars

\* the loop is sequential code: a request that is answered is followed by
\* the branch on its status
SpecRetryFair == SpecRetry /\ WF_vars(NextRetry)

\* the statuses received so far, and how many of them were 429
Received == [k \in 1..http_requests |-> responses[k]]
RateLimits == Cardinality({k \in 1..http_requests : responses[k] = 429})
Ended == rpc \in {"returned", "raised"}
DoublingDelays == \A k \in 1..Len(slept) : slept[k] = 10 * (2 ^ (k - 1))

RetryOutcomes ==
    /\ http_requests <= 5
    /\ \A k \in 1..(http_requests - 1) : responses[k] = 429
    /\ rpc = "post" => (http_requests = attempt /\ RateLimits = http_requests)
    /\ rpc = "returned" => responses[http_requests] = 200
    /\ rpc = "raised" =>
          /\ responses[http_requests] # 200
          /\ responses[http_requests] = 429 => http_requests = 5

----------------------------------------------------------------------------
(* server.py: POST /generate and the background task run_orchestration,   *)
(* both reading and rewriting the whole status file                        *)

MaxReels == 2

\* the names clients ask for, each requested once
Reels == 1..MaxReels

\* what the status file holds for a name is "absent" (no record) or the
\* record's status

\* lines 78-86: the status run_orchestration writes for a result
final_status(result) == IF result = "path" THEN "completed" ELSE "failed"

InitServer ==
    /\ AgentDefaults
    /\ KaraokeIdle
    /\ SyncIdle
    /\ AssemblyIdle
    /\ ResizeIdle
    /\ LayoutIdle /\ MeasureIdle /\ RetryIdle
    /\ db \in [Reels -> {"absent", "processing", "completed"}]
    /\ task_pc = [n \in Reels |-> "none"]
    /\ task_db = [n \in Reels |-> [m \in Reels |-> "absent"]]
    /\ outcome = [n \in Reels |-> "none"]

\* generate_reel runs on the event loop without awaiting: one request
\* handler at a time
NoHandlerRunning == \A m \in Reels : task_pc[m] # "accepting"

\* lines 47-49: load_db, and 400 when the name is being processed
GenerateLoad(n) ==
    /\ task_pc[n] = "none"
    /\ NoHandlerRunning
    /\ task_db' = [task_db EXCEPT ![n] = db]
    /\ task_pc' = [task_pc EXCEPT ![n] = IF db[n] = "processing" THEN "rejected"
                                         ELSE "accepting"]
    /\ UNCHANGED <<agentVars, karaokeVars, syncVars, asmVars, resizeVars,
                   layoutVars, measureVars, retryVars, db, outcome>>

\* lines 51-66: the record is set in the loaded copy, the copy is written
\* and the background task is added
GenerateSave(n) ==
    /\ task_pc[n] = "accepting"
    /\ db' = [task_db[n] EXCEPT ![n] = "processing"]
    /\ task_pc' = [task_pc EXCEPT ![n] = "orchestrate"]
    /\ UNCHANGED <<agentVars, karaokeVars, syncVars, asmVars, resizeVars,
                   layoutVars, measureVars, retryVars, task_db, outcome>>

\* lines 71-76: orchestrate_reel returns a path or None, or raises
Orchestrate(n) ==
    /\ task_pc[n] = "orchestrate"
    /\ \E result \in {"path", "nothing", "exception"} :
         /\ outcome' = [outcome EXCEPT ![n] = result]
         /\ task_pc' = [task_pc EXCEPT ![n] = IF result = "exception" THEN "except"
                                              ELSE "load"]
    /\ UNCHANGED <<agentVars, karaokeVars, syncVars, asmVars, resizeVars,
                   layoutVars, measureVars, retryVars, db, task_db>>

\* lines 77-86: load_db, then db[name]["status"] = ..., a KeyError when the
\* file has no record of the name
TaskLoad(n) ==
    /\ task_pc[n] = "load"
    /\ IF db[n] = "absent"
       THEN /\ task_pc' = [task_pc EXCEPT ![n] = "except"]
            /\ task_db' = [task_db EXCEPT ![n] = db]
       ELSE /\ task_pc' = [task_pc EXCEPT ![n] = "save"]
            /\ task_db' = [task_db EXCEPT ![n] = [db EXCEPT ![n] = final_status(outcome[n])]]
    /\ UNCHANGED <<agentVars, karaokeVars, syncVars, asmVars, resizeVars,
                   layoutVars, measureVars, retryVars, db, outcome>>

\* lines 87 and 92: save_db writes the task's copy over the file
TaskSave(n) ==
    /\ task_pc[n] = "save"
    /\ db' = task_db[n]
    /\ task_pc' = [task_pc EXCEPT ![n] = "done"]
    /\ UNCHANGED <<agentVars, karaokeVars, syncVars, asmVars, resizeVars,
                   layoutVars, measureVars, retryVars, task_db, outcome>>

\* lines 88-91: the handler loads the file again; a KeyError here leaves
\* the task
TaskExcept(n) ==
    /\ task_pc[n] = "except"
    /\ IF db[n] = "absent"
       THEN /\ task_pc' = [task_pc EXCEPT ![n] = "crashed"]
            /\ task_db' = [task_db EXCEPT ![n] = db]
       ELSE /\ task_pc' = [task_pc EXCEPT ![n] = "save"]
            /\ task_db' = [task_db EXCEPT ![n] = [db EXCEPT ![n] = "failed"]]
    /\ UNCHANGED <<agentVars, karaokeVars, syncVars, asmVars, resizeVars,
                   layoutVars, measureVars, retryVars, db, outcome>>

NextServer ==
    \E n \in Reels :
        \/ GenerateLoad(n) \/ GenerateSave(n) \/ Orchestrate(n)
        \/ TaskLoad(n) \/ TaskSave(n) \/ TaskExcept(n)

SpecServer == InitServer /\ [][NextServer]_vars

\* the status the task of reel n must have left: failed after an exception
\* or a None result, completed after a path
StatusDue(n) == IF outcome[n] = "path" THEN "completed" ELSE "failed"

\* C30: no status update is lost: a reel whose background task has ended
\* has, and keeps, the status its task wrote (completed or failed), and no
\* task ends without having written one.
C30_NoStatusUpdateLost ==
    \A n \in Reels :
        /\ task_pc[n] # "crashed"
        /\ task_pc[n] = "done" => db[n] = StatusDue(n)

====
